---- MODULE Spec2Model ----
(***************************************************************************)
(* Page monitor (src/main.py): a background poller fetches one page every  *)
(* 30 s, extracts "TAG ID: <token> ... ----<message>" records with a       *)
(* regular expression, asks the SQLite table page_content whether a row    *)
(* for the tag exists (a LIKE query on the serialized record) and commits  *)
(* a new row per unseen record; GET /content reads every row back.         *)
(*                                                                         *)
(* Text is modelled as sequences of one-character strings, so the regular  *)
(* expression, str.strip, str(dict) and LIKE are computed character by     *)
(* character.                                                              *)
(***************************************************************************)
EXTENDS Integers, Sequences, FiniteSets, TLC

\* ------------------------------------------------------------------ bounds

\* The store is capped: a fetch whose records would not fit is not offered.
MaxStore == 2
\* ParseSpec: texts are concatenations of at most MaxPieces pieces.
MaxPieces == 3

\* -------------------------------------------------------------- characters

Space == {" ", "\n"}

UpperSeq == <<"A", "B", "C", "D", "E", "F", "G", "H", "I", "J", "K", "L", "M",
              "N", "O", "P", "Q", "R", "S", "T", "U", "V", "W", "X", "Y", "Z">>

LowerSeq == <<"a", "b", "c", "d", "e", "f", "g", "h", "i", "j", "k", "l", "m",
              "n", "o", "p", "q", "r", "s", "t", "u", "v", "w", "x", "y", "z">>

DigitSeq == <<"0", "1", "2", "3", "4", "5", "6", "7", "8", "9">>

Range(f) == {f[k] : k \in DOMAIN f}

\* \w of the re module: letters, digits and the underscore.
Word == Range(UpperSeq) \cup Range(LowerSeq) \cup Range(DigitSeq) \cup {"_"}

\* The class [\w\s] of the message group.
MsgChar == Word \cup Space

\* The lower-case letter of each upper-case letter.
Folded ==
  [c \in Range(UpperSeq) |->
     LowerSeq[CHOOSE k \in DOMAIN UpperSeq : UpperSeq[k] = c]]

\* ASCII case folding, as SQLite's LIKE applies it.
Lower(c) == IF c \in DOMAIN Folded THEN Folded[c] ELSE c

\* str.strip(): leading and trailing whitespace removed.
Strip(s) ==
  LET keep == {k \in DOMAIN s : s[k] \notin Space}
  IN IF keep = {} THEN <<>>
     ELSE LET lo == CHOOSE k \in keep : \A j \in keep : k <= j
              hi == CHOOSE k \in keep : \A j \in keep : k >= j
          IN SubSeq(s, lo, hi)

\* -------------------------------------------------- the regular expression
\* pattern = TAG ID:\s*([^\s]+).+?----([\w\s]+)

MARK == <<"T", "A", "G", " ", "I", "D", ":">>

SEP == <<"-", "-", "-", "-">>

\* The literal lit occurs in s at position i.
HasAt(s, i, lit) ==
  /\ i + Len(lit) - 1 <= Len(s)
  /\ \A k \in 1..Len(lit) : s[i + k - 1] = lit[k]

\* The position after the longest run of characters of class cls from i on.
RunEnd(s, i, cls) ==
  CHOOSE j \in i..(Len(s) + 1) :
    /\ \A k \in i..(j - 1) : s[k] \in cls
    /\ j = Len(s) + 1 \/ s[j] \notin cls

\* .+? after a token ending before t: the least g > t such that s[t..g-1]
\* holds no newline (. without DOTALL) and ----[\w\s] follows at g; 0 if none.
GapEnd(s, t) ==
  LET ok == {g \in (t + 1)..Len(s) :
               /\ \A k \in t..(g - 1) : s[k] # "\n"
               /\ HasAt(s, g, SEP)
               /\ g + Len(SEP) <= Len(s)
               /\ s[g + Len(SEP)] \in MsgChar}
  IN IF ok = {} THEN 0 ELSE CHOOSE g \in ok : \A h \in ok : g <= h

NoMatch == [ok |-> FALSE]

\* Faulty variant of the pattern: \s* is missing, the token must start right
\* after the colon.
MatchAt_NoSkip(s, i) ==
  IF ~HasAt(s, i, MARK) THEN NoMatch
  ELSE
    LET w == i + Len(MARK)
        tMax == CHOOSE j \in w..(Len(s) + 1) :
                  /\ \A k \in w..(j - 1) : s[k] \notin Space
                  /\ j = Len(s) + 1 \/ s[j] \in Space
        ts == {t \in (w + 1)..tMax : GapEnd(s, t) # 0}
    IN IF ts = {} THEN NoMatch
       ELSE LET t == CHOOSE x \in ts : \A y \in ts : x >= y
                g == GapEnd(s, t)
                e == RunEnd(s, g + Len(SEP), MsgChar)
            IN [ok |-> TRUE, tag |-> SubSeq(s, w, t - 1),
                msg |-> SubSeq(s, g + Len(SEP), e - 1), end |-> e]

\* One match attempt anchored at i, in the order the backtracking matcher
\* tries: \s* takes the whole run of whitespace (a shorter run would leave
\* whitespace where the token must start), the token [^\s]+ is tried from
\* its longest length down, the gap from its shortest up, the message run
\* is maximal.
MatchAt(s, i) ==
  IF ~HasAt(s, i, MARK) THEN NoMatch
  ELSE
    LET w == RunEnd(s, i + Len(MARK), Space)
        tMax == CHOOSE j \in w..(Len(s) + 1) :
                  /\ \A k \in w..(j - 1) : s[k] \notin Space
                  /\ j = Len(s) + 1 \/ s[j] \in Space
        ts == {t \in (w + 1)..tMax : GapEnd(s, t) # 0}
    IN IF ts = {} THEN NoMatch
       ELSE LET t == CHOOSE x \in ts : \A y \in ts : x >= y
                g == GapEnd(s, t)
                e == RunEnd(s, g + Len(SEP), MsgChar)
            IN [ok |-> TRUE, tag |-> SubSeq(s, w, t - 1),
                msg |-> SubSeq(s, g + Len(SEP), e - 1), end |-> e]

\* Faulty variant of findall: pattern.search, the first match only.
FindAll_First(s, i) ==
  LET starts == {k \in i..Len(s) : MatchAt(s, k).ok}
  IN IF starts = {} THEN <<>>
     ELSE LET m == MatchAt(s, CHOOSE k \in starts : \A j \in starts : k <= j)
          IN <<[tag |-> m.tag, msg |-> m.msg]>>

\* pattern.findall(content): the matches found scanning left to right from
\* i, the scan resuming where the previous match ended.
RECURSIVE FindAll(_, _)
FindAll(s, i) ==
  LET starts == {k \in i..Len(s) : MatchAt(s, k).ok}
  IN IF starts = {} THEN <<>>
     ELSE LET m == MatchAt(s, CHOOSE k \in starts : \A j \in starts : k <= j)
          IN <<[tag |-> m.tag, msg |-> m.msg]>> \o FindAll(s, m.end)

\* What datetime.now() may return: a second of the modelled minute. The wall
\* clock of a civil time zone is an input, and not a monotonic one.
Times == {1, 2}

\* Faulty variant of the comprehension: "id": idx, counting from 0.
Entries_ZeroBased(matches, now) ==
  [k \in 1..Len(matches) |->
     [id |-> k - 1, tag_id |-> matches[k].tag,
      message |-> Strip(matches[k].msg), timestamp |-> now[k]]]

\* The list comprehension of parse_content over the matches; now[k] is what
\* datetime.now() returns while the k-th dict is built.
Entries(matches, now) ==
  [k \in 1..Len(matches) |->
     [id |-> k, tag_id |-> matches[k].tag,
      message |-> Strip(matches[k].msg), timestamp |-> now[k]]]

\* parse_content
ParseContent(content, now) == Entries(FindAll(content, 1), now)

\* ------------------------------------------------ serialization and LIKE

RECURSIVE Digits(_)
\* str(n) of a natural number.
Digits(n) ==
  IF n < 10 THEN <<DigitSeq[n + 1]>>
  ELSE Digits(n \div 10) \o <<DigitSeq[(n % 10) + 1]>>

RECURSIVE Escaped(_, _)
\* The body of repr(s) inside the quote q: backslash, newline and the quote
\* itself are escaped.
Escaped(s, q) ==
  IF s = <<>> THEN <<>>
  ELSE (CASE Head(s) = "\n" -> <<"\\", "n">>
          [] Head(s) = "\\" -> <<"\\", "\\">>
          [] Head(s) = q -> <<"\\", q>>
          [] OTHER -> <<Head(s)>>) \o Escaped(Tail(s), q)

\* repr of a str: single quotes, unless it holds one and no double quote.
Repr(s) ==
  LET q == IF "'" \in Range(s) /\ "\"" \notin Range(s) THEN "\"" ELSE "'"
  IN <<q>> \o Escaped(s, q) \o <<q>>

\* repr of the aware datetime of second t (the date and the zone are fixed).
ReprTime(t) ==
  <<"d", "a", "t", "e", "t", "i", "m", "e", ".", "d", "a", "t", "e", "t", "i",
    "m", "e", "(", "2", "0", "2", "4", ",", " ", "1", ",", " ", "1", ",", " ",
    "0", ",", " ", "0", ",", " ">> \o Digits(t) \o
  <<",", " ", "t", "z", "i", "n", "f", "o", "=", "<", "D", "s", "t", "T", "z",
    "I", "n", "f", "o", " ", "'", "A", "m", "e", "r", "i", "c", "a", "/", "S",
    "a", "o", "_", "P", "a", "u", "l", "o", "'", " ", "-", "0", "3", "-", "1",
    " ", "d", "a", "y", ",", " ", "2", "1", ":", "0", "0", ":", "0", "0", " ",
    "S", "T", "D", ">", ")">>

\* str(entry) of the dict parse_content builds.
Str(entry) ==
  <<"{", "'", "i", "d", "'", ":", " ">> \o Digits(entry.id) \o
  <<",", " ", "'", "t", "a", "g", "_", "i", "d", "'", ":", " ">> \o
  Repr(entry.tag_id) \o
  <<",", " ", "'", "m", "e", "s", "s", "a", "g", "e", "'", ":", " ">> \o
  Repr(entry.message) \o
  <<",", " ", "'", "t", "i", "m", "e", "s", "t", "a", "m", "p", "'", ":", " ">> \o
  ReprTime(entry.timestamp) \o <<"}">>

\* datetime.isoformat() of the stored (naive) timestamp.
IsoFormat(t) ==
  <<"2", "0", "2", "4", "-", "0", "1", "-", "0", "1", "T", "0", "0", ":", "0",
    "0", ":", DigitSeq[(t \div 10) + 1], DigitSeq[(t % 10) + 1]>>

RECURSIVE LikeAt(_, _, _, _)
\* p from position i on matches text from position j on: % matches any run,
\* _ any one character, every other character itself, ASCII case folded.
LikeAt(p, i, text, j) ==
  IF i > Len(p) THEN j > Len(text)
  ELSE IF p[i] = "%"
    THEN \E j2 \in j..(Len(text) + 1) : LikeAt(p, i + 1, text, j2)
    ELSE /\ j <= Len(text)
         /\ p[i] = "_" \/ Lower(p[i]) = Lower(text[j])
         /\ LikeAt(p, i + 1, text, j + 1)

\* SQLite's  text LIKE p : the whole text is matched.
Like(p, text) == LikeAt(p, 1, text, 1)

\* f"%TAG ID: {entry['tag_id']}%"
LikePattern(tag_id) == <<"%">> \o MARK \o <<" ">> \o tag_id \o <<"%">>

\* db.query(PageContent).filter(PageContent.content.like(...)).first() is
\* not None, over the committed rows.
ExistingEntry(rows, tag_id) ==
  \E k \in DOMAIN rows : Like(LikePattern(tag_id), rows[k].content)

\* PageContent(content=str(entry), timestamp=entry["timestamp"]); the id is
\* NULL (0) until the INSERT.
NewRow(entry) ==
  [id |-> 0, content |-> Str(entry), timestamp |-> entry.timestamp]

\* INTEGER PRIMARY KEY: the largest id in the table plus one.
NextId(rows) ==
  IF rows = <<>> THEN 1
  ELSE 1 + (CHOOSE m \in {rows[k].id : k \in DOMAIN rows} :
              \A k \in DOMAIN rows : rows[k].id <= m)

\* Faulty variant of the commit: the row takes the place of the latest one.
Committed_Replace(rows, row) ==
  IF rows = <<>> THEN <<[row EXCEPT !.id = 1]>>
  ELSE [rows EXCEPT ![Len(rows)] = [row EXCEPT !.id = Len(rows)]]

\* db.commit() with one new object in the session: one INSERT.
Committed(rows, row) == Append(rows, [row EXCEPT !.id = NextId(rows)])

\* Faulty variant of the read: order_by(PageContent.id.desc()).
QueryAll_Reversed(rows, uncommitted) ==
  [k \in DOMAIN rows |-> rows[Len(rows) + 1 - k]]

\* Faulty variant of the read: it sees what other sessions have not committed.
QueryAll_Dirty(rows, uncommitted) == rows \o uncommitted

\* db.query(PageContent).all() in the request's own session: the committed
\* rows; what another session has added and not committed is not among them.
QueryAll(rows, uncommitted) == rows

\* Faulty variant of the response: no 404 for an empty table.
Response_No404(rows) ==
  [status |-> 200, detail |-> "",
   body |-> [k \in DOMAIN rows |->
               [id |-> rows[k].id, content |-> rows[k].content,
                timestamp |-> IsoFormat(rows[k].timestamp)]]]

\* The body of get_saved_content after the query.
Response(rows) ==
  IF rows = <<>>
    THEN [status |-> 404, detail |-> "No content found", body |-> <<>>]
  ELSE [status |-> 200, detail |-> "",
        body |-> [k \in DOMAIN rows |->
                    [id |-> rows[k].id, content |-> rows[k].content,
                     timestamp |-> IsoFormat(rows[k].timestamp)]]]

\* ------------------------------------------------------------------ inputs

\* "TAG ID: 42 x ----m" and "TAG ID: 4 y ----n"
Span42 == MARK \o <<" ", "4", "2", " ", "x", " ">> \o SEP \o <<"m">>

Span4 == MARK \o <<" ", "4", " ", "y", " ">> \o SEP \o <<"n">>

\* The response bodies the monitored page may serve: one record; two records
\* with different tags; the same tag twice; the first body with surrounding
\* whitespace; a page without marker; a page with a marker and no separator
\* ("TAG ID: c"); an empty page.
Bodies ==
  { Span42,
    Span42 \o <<"<">> \o Span4,
    Span42 \o <<"<">> \o Span42,
    <<" ">> \o Span42 \o <<"\n">>,
    <<"x">>,
    MARK \o <<" ", "c">>,
    <<>> }

\* Status codes of a response: 200 and one failure.
Statuses == {200, 503}

\* No body: the fetch raised or the status was not 200.
NoBody == <<"(no body)">>

\* Faulty variant: the body is taken as it came, .strip() is missing.
StripOf_Raw == [b \in Bodies |-> b]

\* response.text.strip() and pattern.findall of the bodies above, raw and
\* stripped, computed once: a text has the same matches whenever it is parsed.
StripOf == [b \in Bodies |-> Strip(b)]

MatchesOf == [c \in Bodies \cup {Strip(b) : b \in Bodies} |-> FindAll(c, 1)]

\* The pieces ParseSpec builds its texts from: two well-formed spans, a span
\* whose gap holds a newline, a marker without separator, the characters
\* that may stand between spans, and two whole texts: D, two markers before
\* one separator ("TAG ID: a TAG ID: b ---- msg"), and E, a span after noise
\* whose message is followed by a newline and a word
\* ("noise TAG ID: abc123 blah ---- hello world\nmore").
PieceText(p) ==
  CASE p = "A" -> MARK \o <<" ", "a", " ", "x", " ">> \o SEP \o <<" ", "m">>
    [] p = "B" -> MARK \o <<"b", " ", "y">> \o SEP \o <<"n", " ">>
    [] p = "G" -> MARK \o <<" ", "g", "\n", "z", " ">> \o SEP \o <<"k">>
    [] p = "M" -> MARK \o <<" ", "c", " ">>
    [] p = "<" -> <<"<">>
    [] p = "N" -> <<"\n">>
    [] p = "D" -> MARK \o <<" ", "a", " ">> \o MARK \o <<" ", "b", " ">> \o SEP \o
                  <<" ", "m", "s", "g">>
    [] p = "E" -> <<"n", "o", "i", "s", "e", " ">> \o MARK \o
                  <<" ", "a", "b", "c", "1", "2", "3", " ", "b", "l", "a", "h",
                    " ">> \o SEP \o
                  <<" ", "h", "e", "l", "l", "o", " ", "w", "o", "r", "l", "d",
                    "\n", "m", "o", "r", "e">>

Pieces == {"A", "B", "G", "M", "<", "N", "D", "E"}

PieceSeqs == UNION {[1..n -> Pieces] : n \in 0..MaxPieces}

RECURSIVE Text(_)
\* The raw text a sequence of pieces spells.
Text(ps) == IF ps = <<>> THEN <<>> ELSE PieceText(Head(ps)) \o Text(Tail(ps))

\* ------------------------------------------------------------------- state

VARIABLES
  last_content,    \* the global last_content
  store,           \* the committed rows of table page_content, in id order
  pc,              \* where monitor_page stands: fetch, query, commit, sleep
  parsed_entries,  \* save_content_to_db: the list being looped over
  idx,             \* save_content_to_db: position of the loop in it
  pending,         \* the poller's session: objects added and not committed
  contents,        \* get_saved_content: the rows its query returned
  resp,            \* get_saved_content: the response of the latest request
  tags,            \* history: the tag_id each stored row was created from
  status,          \* history: status of the latest fetch (0: it raised)
  lastBody,        \* history: raw body of the latest fetch, NoBody if none
  parsed,          \* history: the latest fetch went on to parse_content
  repeat,          \* history: its body was that of the fetch before it
  readPending,     \* history: pending as it was when contents was queried
  rpc,             \* get_saved_content: idle, or run (a worker thread has it)
  failed,          \* history: save_content_to_db raised in the latest cycle
  call,            \* PipeSpec: the latest direct call of save_content_to_db
  pieces,          \* ParseSpec: the pieces of the text given to the parser
  records,         \* ParseSpec: what parse_content returned
  ppc              \* ParseSpec: ready (to call) or done

pollerVars == <<last_content, pc, parsed_entries, idx, pending>>
readerVars == <<contents, resp, readPending, rpc>>
fetchHist == <<status, lastBody, parsed, repeat>>
parseVars == <<pieces, records, ppc>>
vars == <<last_content, store, pc, parsed_entries, idx, pending, contents,
          resp, tags, status, lastBody, parsed, repeat, readPending, rpc,
          failed, call, pieces, records, ppc>>

NoResp == [status |-> 0, detail |-> "", body |-> <<>>]

NoCall == [text |-> NoBody, repeat |-> FALSE, store0 |-> <<>>]

\* The state the module leaves behind once imported, whoever runs next: the
\* table exists and is empty, last_content is "", nothing has been fetched or
\* requested.
Boot ==
  /\ last_content = <<>>
  /\ store = <<>>
  /\ parsed_entries = <<>>
  /\ idx = 0
  /\ pending = <<>>
  /\ contents = <<>>
  /\ resp = NoResp
  /\ tags = <<>>
  /\ status = 0
  /\ lastBody = NoBody
  /\ parsed = FALSE
  /\ repeat = FALSE
  /\ readPending = <<>>
  /\ rpc = "idle"
  /\ failed = FALSE
  /\ call = NoCall
  /\ records = <<>>

\* The process has started: the startup event has created the monitor task,
\* which is about to send its first request.
Init == Boot /\ pc = "fetch" /\ pieces = <<>> /\ ppc = "off"

\* ------------------------------------------------------------ monitor_page

\* Faulty variant of the status test: every response is processed.
StatusOK_Any(code) == TRUE

\* if response.status_code == 200
StatusOK(code) == code = 200

\* Faulty variant of the change test: every body counts as new.
Changed_Always(content, last) == TRUE

\* if content != last_content
Changed(content, last) == content # last

\* Faulty variant of the handler: the exception ends the task.
OnException_Crash == "crashed"

\* except Exception as e: print(...), then the loop goes on to the sleep.
OnException == "sleep"

\* Faulty variant of the parse: a text without matches raises (matches[0]).
BeginSave_Raise(content, now) ==
  LET entries == Entries(MatchesOf[content], now)
  IN IF entries = <<>>
       THEN /\ pc' = OnException /\ parsed_entries' = <<>> /\ idx' = 0
            /\ failed' = TRUE
       ELSE /\ pc' = "query" /\ parsed_entries' = entries /\ idx' = 1
            /\ failed' = FALSE

\* save_content_to_db up to its loop: parse, return if nothing was parsed.
\* Nothing has raised so far.
BeginSave(content, now) ==
  LET entries == Entries(MatchesOf[content], now)
  IN /\ failed' = FALSE
     /\ IF entries = <<>>
          THEN pc' = "sleep" /\ parsed_entries' = <<>> /\ idx' = 0
          ELSE pc' = "query" /\ parsed_entries' = entries /\ idx' = 1

\* The for loop moves to its next entry, or ends: db.close(), return, the
\* print of monitor_page, and on to the sleep.
NextEntry ==
  IF idx < Len(parsed_entries)
    THEN pc' = "query" /\ idx' = idx + 1 /\ UNCHANGED parsed_entries
    ELSE pc' = "sleep" /\ parsed_entries' = <<>> /\ idx' = 0

\* Faulty variant: no finally, the session keeps the object it held.
Abandon_NoClose ==
  /\ pc' = OnException
  /\ parsed_entries' = <<>>
  /\ idx' = 0
  /\ pending' = pending
  /\ failed' = TRUE
  /\ last_content' = last_content

\* Faulty variant: the handler forgets the body, so that it is parsed again.
Abandon_Forget ==
  /\ pc' = OnException
  /\ parsed_entries' = <<>>
  /\ idx' = 0
  /\ pending' = <<>>
  /\ failed' = TRUE
  /\ last_content' = <<>>

\* An exception leaves save_content_to_db: db.close() drops what the session
\* held, and monitor_page's handler takes over; the loop is not resumed and
\* last_content keeps the value line 47 gave it.
Abandon ==
  /\ pc' = OnException
  /\ parsed_entries' = <<>>
  /\ idx' = 0
  /\ pending' = <<>>
  /\ failed' = TRUE
  /\ last_content' = last_content

\* asyncio.sleep(30) is over: the next iteration starts its request.
Wake ==
  /\ pc = "sleep"
  /\ pc' = "fetch"
  /\ UNCHANGED <<last_content, store, parsed_entries, idx, pending, tags, call>>
  /\ UNCHANGED failed
  /\ UNCHANGED <<readerVars, fetchHist, parseVars>>

\* client.get raises (connection refused, timeout after 10 s).
FetchRaise ==
  /\ pc = "fetch"
  /\ pc' = OnException
  /\ status' = 0
  /\ lastBody' = NoBody
  /\ parsed' = FALSE
  /\ repeat' = FALSE
  /\ failed' = FALSE
  /\ UNCHANGED <<last_content, store, parsed_entries, idx, pending, tags, call>>
  /\ UNCHANGED <<readerVars, parseVars>>

\* client.get returns a response: lines 44-51, and save_content_to_db up to
\* its first query when the content is new.
FetchResponse ==
  /\ pc = "fetch"
  /\ \E code \in Statuses, body \in Bodies :
       LET content == StripOf[body]
           fresh == StatusOK(code) /\ Changed(content, last_content)
           n == Len(MatchesOf[content])
       IN /\ fresh => Len(store) + n <= MaxStore
          /\ status' = code
          /\ lastBody' = IF code = 200 THEN body ELSE NoBody
          /\ parsed' = fresh
          /\ repeat' = (code = 200 /\ body = lastBody)
          /\ IF fresh
               THEN /\ last_content' = content
                    /\ \E now \in [1..n -> Times] : BeginSave(content, now)
               ELSE /\ pc' = "sleep"
                    /\ failed' = FALSE
                    /\ UNCHANGED <<last_content, parsed_entries, idx>>
  /\ UNCHANGED <<store, pending, tags, call, readerVars, parseVars>>

\* Line 67: the existence query of the current entry, which either skips it
\* or adds a new object to the session.
Query ==
  /\ pc = "query"
  /\ LET entry == parsed_entries[idx]
     IN IF ExistingEntry(store, entry.tag_id)
          THEN NextEntry /\ UNCHANGED pending
          ELSE /\ pending' = <<NewRow(entry)>>
               /\ pc' = "commit"
               /\ UNCHANGED <<parsed_entries, idx>>
  /\ UNCHANGED <<last_content, store, tags, call, failed>>
  /\ UNCHANGED <<readerVars, fetchHist, parseVars>>

\* The existence query raises (the database is locked, an I/O error).
QueryFail ==
  /\ pc = "query"
  /\ Abandon
  /\ UNCHANGED <<store, tags, call>>
  /\ UNCHANGED <<readerVars, fetchHist, parseVars>>

\* Faulty variant: db.commit() after the loop instead of in it, the rows of
\* the batch are written together when the last entry has been added.
Commit_AtEnd ==
  /\ pc = "commit"
  /\ IF idx < Len(parsed_entries)
       THEN /\ store' = store
            /\ tags' = tags
       ELSE /\ store' = store \o
                   [k \in 1..Len(parsed_entries) |->
                      [NewRow(parsed_entries[k]) EXCEPT !.id = Len(store) + k]]
            /\ tags' = tags \o [k \in 1..Len(parsed_entries) |->
                                  parsed_entries[k].tag_id]
  /\ pending' = <<>>
  /\ NextEntry
  /\ UNCHANGED <<last_content, call, failed, readerVars, fetchHist, parseVars>>

\* Line 74: db.commit() writes the pending row.
Commit ==
  /\ pc = "commit"
  /\ store' = Committed(store, pending[1])
  /\ tags' = Append(tags, parsed_entries[idx].tag_id)
  /\ pending' = <<>>
  /\ NextEntry
  /\ UNCHANGED <<last_content, call, failed, readerVars, fetchHist, parseVars>>

\* db.commit() raises: nothing is written.
CommitFail ==
  /\ pc = "commit"
  /\ Abandon
  /\ UNCHANGED <<store, tags, call>>
  /\ UNCHANGED <<readerVars, fetchHist, parseVars>>

Poller ==
  \/ Wake
  \/ FetchRaise
  \/ FetchResponse
  \/ Query
  \/ QueryFail
  \/ Commit
  \/ CommitFail

\* -------------------------------------------------------- get_saved_content

\* Faulty variant: the request of monitor_page blocks the event loop (a
\* synchronous client), which runs only while the task sleeps.
Suspended_SleepOnly(p) == p = "sleep"

\* The monitor task is suspended at an await (client.get, asyncio.sleep) and
\* the event loop is free to run other work.
Suspended(p) == p \in {"fetch", "sleep"}

\* GET /content arrives: the event loop, when it runs, hands the handler (a
\* plain def) to a worker thread.
ReadAccept ==
  /\ rpc = "idle"
  /\ Suspended(pc)
  /\ rpc' = "run"
  /\ UNCHANGED <<contents, resp, readPending>>
  /\ UNCHANGED <<store, tags, call, failed, pollerVars, fetchHist, parseVars>>

\* The worker thread runs the handler, whatever the monitor task is doing:
\* the query of line 108, then 404 or the list, built from the rows the
\* query returned.
ReadRun ==
  /\ rpc = "run"
  /\ contents' = QueryAll(store, pending)
  /\ resp' = Response(contents')
  /\ readPending' = pending
  /\ rpc' = "idle"
  /\ UNCHANGED <<store, tags, call, failed, pollerVars, fetchHist, parseVars>>

Read == ReadAccept \/ ReadRun

Next == Poller \/ Read

Spec == Init /\ [][Next]_vars

\* The event loop resumes the monitor task whenever it can run: the sleep
\* ends, the request returns or raises within its timeout, and the database
\* calls return or raise.
LiveSpec == Spec /\ WF_vars(Poller)

\* ----------------------------------------- save_content_to_db called alone

\* PipeSpec drives the pipeline without the poller around it: a caller hands
\* a raw text to save_content_to_db and the call runs to its end (Query and
\* Commit are the steps of its loop; pc = "sleep" stands for having returned).
PipeInit == Boot /\ pc = "sleep" /\ pieces = <<>> /\ ppc = "off"

PipeCall ==
  /\ pc = "sleep"
  /\ \E body \in Bodies :
       LET n == Len(MatchesOf[body])
       IN /\ Len(store) + n <= MaxStore
          /\ call' = [text |-> body, repeat |-> call.text = body, store0 |-> store]
          /\ \E now \in [1..n -> Times] : BeginSave(body, now)
  /\ UNCHANGED <<last_content, store, pending, tags>>
  /\ UNCHANGED <<readerVars, fetchHist, parseVars>>

PipeNext == PipeCall \/ Query \/ Commit

PipeSpec == PipeInit /\ [][PipeNext]_vars

\* ------------------------------------------------- parse_content called alone

\* ParseSpec hands parse_content a text spelled by a sequence of pieces.
ParseInit == Boot /\ pc = "sleep" /\ pieces \in PieceSeqs /\ ppc = "ready"

ParseCall ==
  /\ ppc = "ready"
  /\ LET text == Text(pieces)
     IN \E now \in [1..Len(FindAll(text, 1)) -> Times] :
          records' = ParseContent(text, now)
  /\ ppc' = "done"
  /\ UNCHANGED <<pieces, store, tags, call, failed, pollerVars, readerVars,
                 fetchHist>>

\* The caller drops the result; the text may be parsed again.
ParseAgain ==
  /\ ppc = "done"
  /\ ppc' = "ready"
  /\ records' = <<>>
  /\ UNCHANGED <<pieces, store, tags, call, failed, pollerVars, readerVars,
                 fetchHist>>

ParseNext == ParseCall \/ ParseAgain

ParseSpec == ParseInit /\ [][ParseNext]_vars

\* ------------------------------------------------------------- properties

\* C1. Dedup uniqueness: no two stored rows were created from records with
\* the same tag_id.
C1_DedupUnique ==
  \A i, j \in DOMAIN tags : i # j => tags[i] # tags[j]

\* C2. Idempotence of save_content_to_db: a call on the text of the call
\* before it appends nothing, the store stays what it was when the call began.
C2_SecondRunAppendsNothing == call.repeat => store = call.store0

\* C3. Append-then-exists: the existence check of the poller finds every
\* tag_id a committed row was created from.
C3_AppendThenExists ==
  \A k \in DOMAIN tags : ExistingEntry(store, tags[k])

\* C4. Change-skip: the fetch step of a cycle whose raw body is the raw body
\* of the cycle before it runs no parse, starts no existence check, appends
\* nothing and goes to the sleep.
C4_ChangeSkip ==
  [][(pc = "fetch" /\ pc' # "fetch" /\ lastBody # NoBody /\ lastBody' = lastBody)
       => /\ ~parsed'
          /\ pc' = "sleep"
          /\ parsed_entries' = <<>>
          /\ pending' = <<>>
          /\ store' = store
          /\ last_content' = last_content]_vars

\* A body with a record was fetched twice in a row, and the cycle is over.
C4_Witness ==
  /\ repeat
  /\ pc = "sleep"
  /\ MatchesOf[StripOf[lastBody]] # <<>>
  /\ Len(store) = 1

\* C5. Poller liveness: whatever happens in a cycle the poller comes back to
\* the sleep, and from the sleep the next fetch starts.
C5_PollerLiveness ==
  /\ (pc # "sleep") ~> (pc = "sleep")
  /\ (pc = "sleep") ~> (pc = "fetch")

\* A cycle parsed records and stored none of them (the store failed), and the
\* poller sleeps.
C5_Witness ==
  /\ pc = "sleep"
  /\ parsed
  /\ MatchesOf[last_content] # <<>>
  /\ store = <<>>

\* C6. Fetch failure is a no-op: a fetch that raises or answers with another
\* status than 200 leaves the store and last_content as they were, parses
\* nothing and goes to the sleep.
C6_FetchFailureNoOp ==
  [][(pc = "fetch" /\ pc' # "fetch" /\ status' # 200)
       => /\ store' = store
          /\ last_content' = last_content
          /\ ~parsed'
          /\ parsed_entries' = <<>>
          /\ pc' = "sleep"]_vars

\* A 503 came after content had been cached and stored.
C6_Witness ==
  /\ status = 503
  /\ pc = "sleep"
  /\ last_content # <<>>
  /\ store # <<>>

\* C7. Query facade: a request answers 404 exactly when the table is empty
\* when it queries, and otherwise 200 with every row of the table, its id,
\* content and timestamp (in ISO format).
C7_QueryFacade ==
  [][resp' # resp
       => /\ resp'.status = 404 <=> store = <<>>
          /\ store # <<>> =>
               /\ resp'.status = 200
               /\ DOMAIN resp'.body = DOMAIN store
               /\ \A k \in DOMAIN store :
                    /\ resp'.body[k].id = store[k].id
                    /\ resp'.body[k].content = store[k].content
                    /\ resp'.body[k].timestamp = IsoFormat(store[k].timestamp)]_vars

\* After one append a request has returned one element, the appended one.
C7_Witness ==
  /\ Len(store) = 1
  /\ resp.status = 200
  /\ Len(resp.body) = 1
  /\ resp.body[1].content = store[1].content

\* C8. Append-only store: no step removes or changes a committed row, and the
\* store changes only by the commit of the poller appending one row.
C8_AppendOnly ==
  [][/\ \A k \in DOMAIN store : k \in DOMAIN store' /\ store'[k] = store[k]
     /\ store' # store => pc = "commit" /\ Len(store') = Len(store) + 1]_vars

\* Two rows are stored and a request has read rows.
C8_Witness == Len(store) = 2 /\ resp.status = 200

\* The spans of a text in the sense of C9: the pieces that are a marker, a
\* token, a gap, a separator and a message.
IsSpan(p) == p \in {"A", "B"}

SpanTag(p) == IF p = "A" THEN <<"a">> ELSE <<"b">>

\* The texts of well-formed spans whose gaps stay on one line, any two spans
\* apart, with nothing but newlines and "<" around them.
SpansOnly ==
  /\ \A k \in DOMAIN pieces : pieces[k] \in {"A", "B", "<", "N"}
  /\ \A k \in DOMAIN pieces :
       IsSpan(pieces[k]) /\ k < Len(pieces) => ~IsSpan(pieces[k + 1])

\* Each span's message ends at the end of the text or at a character that is
\* neither a word character nor whitespace.
Delimited ==
  \A k \in DOMAIN pieces :
    IsSpan(pieces[k]) /\ k < Len(pieces) => pieces[k + 1] = "<"

SpanTags == SelectSeq(pieces, IsSpan)

CountAndOrder ==
  /\ Len(records) = Len(SpanTags)
  /\ \A k \in DOMAIN records :
       records[k].id = k /\ records[k].tag_id = SpanTag(SpanTags[k])

\* C9 as claimed: a text with N well-formed, non-overlapping spans yields N
\* records, in the order of the spans, with id 1..N.
C9_CountAndOrder == (ppc = "done" /\ SpansOnly) => CountAndOrder

\* C9 amended: so it is when each span's message is followed by the end of
\* the text or by a character that is neither word nor whitespace.
C9_CountAndOrderDelimited ==
  (ppc = "done" /\ SpansOnly /\ Delimited) => CountAndOrder

\* Two delimited spans have been parsed into two records.
C9_Witness ==
  /\ ppc = "done"
  /\ pieces = <<"A", "<", "B">>
  /\ Len(records) = 2

\* C10. Read atomicity: the rows a request gets are committed rows, each with
\* its id, content and timestamp; a row another session has added and not
\* committed is not among them.
C10_ReadAtomicity ==
  /\ \A k \in DOMAIN contents :
       /\ k \in DOMAIN store
       /\ contents[k] = store[k]
       /\ contents[k].id >= 1
       /\ contents[k] \notin Range(readPending)
  /\ Len(resp.body) <= Len(contents)

\* A request queried while the poller held an uncommitted row, and got the
\* one committed row.
C10_Witness ==
  /\ readPending # <<>>
  /\ Len(contents) = 1
  /\ resp.status = 200

\* C11 as claimed. Store-failure isolation: when the existence check or the
\* commit of a record raises and records of the batch are left, the loop goes
\* on to check the next record.
C11_FailureIsolated ==
  [][(~failed /\ failed' /\ idx < Len(parsed_entries))
       => /\ pc' = "query"
          /\ idx' = idx + 1
          /\ parsed_entries' = parsed_entries]_vars

\* C11 amended: the failing record and every record after it in the batch
\* are lost for the cycle: the loop is left, the uncommitted row is dropped,
\* the rows committed before stay, and the poller goes on to the sleep, from
\* which the next cycle starts.
C11_BatchAbandoned ==
  [][(~failed /\ failed')
       => /\ pc \in {"query", "commit"}
          /\ parsed_entries' = <<>>
          /\ idx' = 0
          /\ pending' = <<>>
          /\ store' = store
          /\ pc' = "sleep"]_vars

\* The first record of a batch of two failed: nothing of the batch is stored
\* and the poller sleeps.
C11_Witness ==
  /\ failed
  /\ pc = "sleep"
  /\ Len(MatchesOf[last_content]) = 2
  /\ store = <<>>

\* C12 as claimed. Change detection on the raw body: when two successive
\* cycles fetch with status 200 and the raw bodies differ in any character,
\* the second cycle runs the parse.
C12_RawChangeDetected ==
  [][(pc = "fetch" /\ pc' # "fetch" /\ status = 200 /\ status' = 200
        /\ lastBody' # lastBody)
       => parsed']_vars

\* C12 amended: the comparison is between the trimmed bodies. The second
\* cycle runs the parse exactly when the bodies differ after leading and
\* trailing whitespace is removed, and then caches the trimmed body; bodies
\* that differ in surrounding whitespace only count as unchanged.
C12_TrimmedChangeDetected ==
  [][(pc = "fetch" /\ pc' # "fetch" /\ status = 200 /\ status' = 200)
       => /\ parsed' <=> Strip(lastBody') # Strip(lastBody)
          /\ parsed' => last_content' = Strip(lastBody')
          /\ ~parsed' => last_content' = last_content]_vars

\* After "TAG ID: 42 x ----m" the same text with whitespace around it was
\* fetched, and the cycle went to the sleep without parsing.
C12_Witness ==
  /\ status = 200
  /\ lastBody = <<" ">> \o Span42 \o <<"\n">>
  /\ ~repeat
  /\ ~parsed
  /\ last_content = Span42
  /\ pc = "sleep"

\* C13 as claimed. Two markers before one separator: the text
\* "TAG ID: a TAG ID: b ---- msg" yields one record, with tag_id "b".
C13_NearestMarker ==
  (ppc = "done" /\ pieces = <<"D">>)
    => Len(records) = 1 /\ records[1].tag_id = <<"b">>

\* C13 amended: it yields one record, with tag_id "a": the match starts at
\* the leftmost marker and the second marker lies in its gap.
C13_LeftmostMarker ==
  (ppc = "done" /\ pieces = <<"D">>)
    => /\ Len(records) = 1
       /\ records[1].tag_id = <<"a">>
       /\ records[1].message = <<"m", "s", "g">>

\* The text of two markers has been parsed into a record.
C13_Witness ==
  /\ ppc = "done"
  /\ pieces = <<"D">>
  /\ records # <<>>

\* C14 as claimed. Message extent: the text
\* "noise TAG ID: abc123 blah ---- hello world\nmore" yields one record with
\* id 1, tag_id "abc123" and message "hello world".
C14_MessageToNewline ==
  (ppc = "done" /\ pieces = <<"E">>)
    => /\ Len(records) = 1
       /\ records[1].id = 1
       /\ records[1].tag_id = <<"a", "b", "c", "1", "2", "3">>
       /\ records[1].message =
            <<"h", "e", "l", "l", "o", " ", "w", "o", "r", "l", "d">>

\* C14 amended: the message is "hello world\nmore": the run of word and
\* whitespace characters goes over the newline and takes the word after it.
C14_MessageOverNewline ==
  (ppc = "done" /\ pieces = <<"E">>)
    => /\ Len(records) = 1
       /\ records[1].id = 1
       /\ records[1].tag_id = <<"a", "b", "c", "1", "2", "3">>
       /\ records[1].message =
            <<"h", "e", "l", "l", "o", " ", "w", "o", "r", "l", "d", "\n",
              "m", "o", "r", "e">>

\* The text of the example has been parsed into a record whose message holds
\* a newline.
C14_Witness ==
  /\ ppc = "done"
  /\ pieces = <<"E">>
  /\ records # <<>>
  /\ "\n" \in Range(records[1].message)

\* A text without well-formed span: the marker is missing, or the separator
\* followed by a message character is.
NoSpan(s) ==
  \/ ~\E i \in DOMAIN s : HasAt(s, i, MARK)
  \/ ~\E g \in DOMAIN s :
        /\ HasAt(s, g, SEP)
        /\ g + Len(SEP) <= Len(s)
        /\ s[g + Len(SEP)] \in MsgChar

\* C15. Nothing to persist: a cycle that parses a changed body without
\* well-formed span gets no record from parse_content, raises nothing, leaves
\* the store as it was and goes to the sleep.
C15_NothingToPersist ==
  [][(pc = "fetch" /\ pc' # "fetch" /\ parsed' /\ NoSpan(lastBody'))
       => /\ parsed_entries' = <<>>
          /\ ~failed'
          /\ pending' = <<>>
          /\ store' = store
          /\ tags' = tags
          /\ pc' = "sleep"]_vars

\* After a record was stored the page changed to a marker without separator:
\* the body was parsed, the store still holds the one row.
C15_Witness ==
  /\ parsed
  /\ lastBody = MARK \o <<" ", "c">>
  /\ last_content = lastBody
  /\ Len(store) = 1
  /\ ~failed
  /\ pc = "sleep"

\* t is a proper prefix of s.
IsProperPrefix(t, s) == Len(t) < Len(s) /\ SubSeq(s, 1, Len(t)) = t

\* C16. Prefix imprecision: once a row created from tag_id s is stored, the
\* existence check of every proper prefix t of s finds a row, and no row is
\* created from a record with tag_id t afterwards.
C16_PrefixSkipped ==
  \A i \in DOMAIN tags :
    \A t \in {SubSeq(tags[i], 1, n) : n \in 1..Len(tags[i])} :
      IsProperPrefix(t, tags[i])
        => /\ ExistingEntry(store, t)
           /\ \A j \in DOMAIN tags : j > i => tags[j] # t

\* The ids of a sequence of rows go up strictly.
Ascending(rows) ==
  \A i, j \in DOMAIN rows : i < j => rows[i].id < rows[j].id

\* C17. Read ordering: a commit gives the new row an id above every id of
\* the table and puts it after the rows appended before; what a request
\* reads and returns is in ascending id order, its k-th element being the
\* k-th row appended.
C17_ReadOrdering ==
  /\ [](Ascending(store) /\ Ascending(contents) /\ Ascending(resp.body))
  /\ [][store' # store
          => /\ Len(store') = Len(store) + 1
             /\ SubSeq(store', 1, Len(store)) = store
             /\ \A k \in DOMAIN store : store[k].id < store'[Len(store')].id]_vars
  /\ [][(rpc = "run" /\ rpc' = "idle")
          => /\ Len(resp'.body) = Len(store)
             /\ \A k \in DOMAIN store : resp'.body[k].id = store[k].id]_vars

\* A request has returned the two rows of the table, ids 1 and 2 in this
\* order.
C17_Witness ==
  /\ Len(store) = 2
  /\ Len(resp.body) = 2
  /\ resp.body[1].id = 1
  /\ resp.body[2].id = 2
  /\ resp.body[1].content = store[1].content
  /\ resp.body[2].content = store[2].content

\* C18. Reads are not stalled by the fetch or the sleep: while the poller is
\* suspended in either, an arriving request is taken up at once; a request
\* taken up can run, and it runs against the committed store of the moment,
\* without a step of the poller.
C18_ReadsNotStalled ==
  /\ []((pc \in {"fetch", "sleep"} /\ rpc = "idle") => ENABLED ReadAccept)
  /\ [](rpc = "run" => ENABLED ReadRun)
  /\ [][(rpc = "run" /\ rpc' = "idle")
          => /\ contents' = store
             /\ resp' = Response(store)
             /\ pc' = pc]_vars

\* The poller sleeps after the cycle that committed the first row, and a
\* request made during this sleep has returned the row.
C18_Witness ==
  /\ pc = "sleep"
  /\ parsed
  /\ ~failed
  /\ lastBody = Span42
  /\ Len(store) = 1
  /\ contents = store
  /\ resp.status = 200
  /\ rpc = "idle"

\* C19. The cache is updated before persistence: from the fetch with status
\* 200 on, through the store steps and whether or not they raise,
\* last_content is the body of that fetch (as monitor_page holds it, that is
\* stripped); nothing but a fetch with status 200 and a changed body
\* overwrites it; and when save_content_to_db raised in a cycle and the next
\* cycle fetches the same body, that cycle parses nothing, stores nothing and
\* goes to the sleep.
C19_CacheBeforeStore ==
  /\ [](status = 200 => last_content = Strip(lastBody))
  /\ [][last_content' # last_content
          => pc = "fetch" /\ status' = 200 /\ parsed']_vars
  /\ [][(pc = "fetch" /\ pc' # "fetch" /\ failed /\ status' = 200
          /\ lastBody' = lastBody)
          => /\ ~parsed'
             /\ parsed_entries' = <<>>
             /\ store' = store
             /\ tags' = tags
             /\ pc' = "sleep"]_vars

\* A body with records was cached, none of its records is stored (the store
\* step raised), the same body has been fetched again and was not parsed.
C19_Witness ==
  /\ repeat
  /\ ~parsed
  /\ status = 200
  /\ MatchesOf[last_content] # <<>>
  /\ store = <<>>
  /\ pc = "sleep"

\* C20. Per-record commit: the store grows only by the commit of the record
\* the loop stands at, one row at a time, serialized from that record; the
\* loop takes the records in extraction order; and a store failure leaves
\* the rows committed before it in the store.
C20_PerRecordCommit ==
  /\ [][store' # store
          => /\ pc = "commit"
             /\ Len(store') = Len(store) + 1
             /\ SubSeq(store', 1, Len(store)) = store
             /\ store'[Len(store')].content = Str(parsed_entries[idx])
             /\ tags' = Append(tags, parsed_entries[idx].tag_id)]_vars
  /\ [][(pc \in {"query", "commit"} /\ pc' \in {"query", "commit"})
          => /\ parsed_entries' = parsed_entries
             /\ idx' = idx \/ (idx' = idx + 1 /\ pc' = "query")]_vars
  /\ [][(~failed /\ failed') => store' = store]_vars
  /\ [](pc \in {"query", "commit"} => idx \in DOMAIN parsed_entries)

\* The first record of a batch of two is committed, the second is not yet,
\* and a request has read the table in between: it got one row.
C20_Witness ==
  /\ pc \in {"query", "commit"}
  /\ Len(parsed_entries) = 2
  /\ idx = 2
  /\ Len(store) = 1
  /\ store[1].content = Str(parsed_entries[1])
  /\ contents = store
  /\ resp.status = 200

====
